---- MODULE Spec2Model ----
(***************************************************************************)
(* The TrafficAI browser client as a state machine.                        *)
(*                                                                         *)
(* Two variants of the client live side by side in the sources:            *)
(*   "legacy" - App with the 5 s layout poll (frontend/vite.config.js),    *)
(*              ControlPanel geocoding two typed addresses to node ids     *)
(*              (components/ControlPanel.jsx), Leaflet MapComponent;       *)
(*   "coord"  - App without graph fetching (unnamed/part_000), ControlPanel*)
(*              with Places autocomplete posting coordinates, Google       *)
(*              MapComponent (both in components/MapComponent.jsx).        *)
(* `mode` selects the variant at construction and never changes.           *)
(*                                                                         *)
(* Execution is single threaded: every action below is one event-loop      *)
(* turn (a user event, a timer tick, or the continuation of one await).    *)
(* React flushes the state updates of a turn before the next event, so a   *)
(* turn's setState calls are applied atomically at its end.                *)
(***************************************************************************)
EXTENDS Integers, Sequences, FiniteSets

VARIABLES
    mode,           \* "legacy" | "coord"
    mounted,        \* the App tree is mounted
    routeData,      \* App: useState(null)
    graph,          \* App: useState({nodes: [], edges: []})
    interval,       \* App (legacy): the setInterval handle is live
    layoutInFlight, \* number of GET /network/layout calls not yet settled
    layoutIssued,   \* number of fetchGraph calls so far
    lastLayout,     \* history: outcome of the last settled poll, data of the last applied one
    afterUnmount,   \* history: the slots at unmount, and what happened since
    consoleLog,     \* set of messages written with console.error / console.log
    startLocation,  \* ControlPanel (coord): useState(null)
    endLocation,    \* ControlPanel (coord): useState(null)
    fieldValue,     \* PlacesAutocompleteInner: value of each input
    lookups,        \* in-flight getGeocode calls started by handleSelect
    selectsIssued,  \* number of handleSelect calls so far
    startAddr,      \* ControlPanel (legacy): useState('')
    endAddr,        \* ControlPanel (legacy): useState('')
    time,           \* ControlPanel: useState(8), later the slider's string
    loading,        \* ControlPanel: useState(false)
    status,         \* ControlPanel: useState('')
    alertMsg,       \* text of the last alert() shown
    routeReqs,      \* handleRoute invocations suspended at an await
    routesIssued,   \* number of handleRoute calls that passed the guard
    responses,      \* history: [id, data] of every POST /route that succeeded
    lastSettled,    \* history: how the last handleRoute invocation ended
    panelData,      \* StatsPanel: the data prop
    bars,           \* StatsPanel: what the last render produced
    viewport,       \* the map's viewport: default, fitted to bounds, or moved by the user
    mapReady,       \* useMap() returns the map instance
    lastEffect,     \* history: whether RunViewEffect ran, and the viewport before it
    rendered,       \* MapComponent: what the last render drew
    selectedBy      \* history: per field, the lookup whose Location it holds (0: none)

vars == <<mode, mounted, routeData, graph, interval, layoutInFlight, layoutIssued,
          lastLayout, afterUnmount, consoleLog, startLocation, endLocation,
          fieldValue, lookups, selectsIssued, startAddr, endAddr, time, loading,
          status, alertMsg, routeReqs, routesIssued, responses, lastSettled, panelData,
          bars, viewport, mapReady, lastEffect, rendered, selectedBy>>

appVars == <<mounted, routeData, graph, interval, afterUnmount>>
pollVars == <<layoutInFlight, layoutIssued, lastLayout>>
placesVars == <<startLocation, endLocation, fieldValue, lookups, selectsIssued, selectedBy>>
legacyInputVars == <<startAddr, endAddr>>
panelVars == <<time, loading, status, alertMsg>>
routeVars == <<routeReqs, routesIssued, responses, lastSettled>>
statsVars == <<panelData, bars>>
viewVars == <<viewport, mapReady, lastEffect, rendered>>

(***************************************************************************)
(* Bounds of the exploration.                                              *)
(***************************************************************************)
MaxRoutes == 2      \* handleRoute invocations
MaxPolls == 2       \* fetchGraph invocations
MaxSelects == 2     \* handleSelect invocations

(***************************************************************************)
(* JavaScript values: undefined/null, strings (sequences of text pieces),  *)
(* numbers, and arrays read from JSON fields of unknown shape.             *)
(***************************************************************************)
Undefined == [type |-> "undefined"]
Null == [type |-> "null"]
Str(pieces) == [type |-> "string", s |-> pieces]
Num(n) == [type |-> "number", n |-> n]
Arr(items) == [type |-> "array", items |-> items]

\* a + b on two strings
Concat(a, b) == Str(a.s \o b.s)

\* !v
Falsy(v) ==
    \/ v.type = "undefined"
    \/ v.type = "null"
    \/ (v.type = "string" /\ v.s = << >>)
    \/ (v.type = "number" /\ v.n = 0)

\* a || b
OrElse(a, b) == IF Falsy(a) THEN b ELSE a

DigitChars == <<"0", "1", "2", "3", "4", "5", "6", "7", "8", "9">>

RECURSIVE DigitsOf(_)
DigitsOf(n) ==
    IF n < 10 THEN <<DigitChars[n + 1]>>
    ELSE DigitsOf(n \div 10) \o <<DigitChars[(n % 10) + 1]>>

DigitValue(c) == (CHOOSE i \in 1..10 : DigitChars[i] = c) - 1

RECURSIVE DigitsValue(_)
DigitsValue(ds) ==
    IF ds = << >> THEN 0
    ELSE 10 * DigitsValue(SubSeq(ds, 1, Len(ds) - 1)) + DigitValue(ds[Len(ds)])

\* faulty variant: a conversion that never throws, as String(v) would
ToStringNeverThrows(v) == FALSE

\* v.toString(): throws a TypeError on undefined and null
ToStringThrows(v) == v.type \in {"undefined", "null"}

JsToString(v) == IF v.type = "number" THEN Str(DigitsOf(v.n)) ELSE v

\* parseInt(v) for a number or a string of decimal digits
ParseInt(v) == IF v.type = "number" THEN v.n ELSE DigitsValue(v.s)

(***************************************************************************)
(* Values exchanged with the outside world.                                *)
(***************************************************************************)
EmptyGraph == [nodes |-> << >>, edges |-> << >>]

GridA ==
    [nodes |-> <<[id |-> "5", x |-> Num(0), y |-> Num(0)],
                 [id |-> "12", x |-> Num(1), y |-> Num(0)]>>,
     edges |-> <<[source |-> "5", target |-> "12", capacity |-> 10, current_flow |-> 3]>>]

GridB ==
    [nodes |-> <<[id |-> "5", x |-> Num(0), y |-> Num(0)],
                 [id |-> "7", x |-> Num(1), y |-> Num(1)],
                 [id |-> "12", x |-> Num(2), y |-> Num(0)]>>,
     edges |-> <<[source |-> "5", target |-> "7", capacity |-> 10, current_flow |-> 9],
                 [source |-> "7", target |-> "12", capacity |-> 10, current_flow |-> 6]>>]

\* bodies of successful GET /network/layout responses
LayoutResponses == {GridA, GridB}

CostsA ==
    [total_cost |-> 10, time_cost |-> 6, congestion_penalty |-> 2, emission_cost |-> 1,
     social_cost |-> 1]

CostsB ==
    [total_cost |-> 20, time_cost |-> 5, congestion_penalty |-> 5, emission_cost |-> 5,
     social_cost |-> 5]

\* bodies of successful POST /route responses, per variant
RouteResponses(m) ==
    IF m = "legacy"
    THEN {[path |-> <<"5", "7", "12">>, stats |-> CostsA],
          [path |-> <<"5", "12">>, stats |-> CostsB]}
    ELSE {[geometry |-> Arr(<<[lat |-> Num(40), lng |-> Num(74)],
                              [lat |-> Num(41), lng |-> Num(73)]>>),
           stats |-> CostsA],
          [geometry |-> Arr(<<[lat |-> Num(40), lng |-> Num(74)],
                              [lat |-> Num(42), lng |-> Num(75)]>>),
           stats |-> CostsB]}

\* err.response?.data?.detail values a rejected call can carry
Details == {Undefined, Str(<< >>), Str(<<"no path found">>)}

\* rejected axios calls: a server error carries a response, a transport error none
Errors ==
    {[response |-> [data |-> [detail |-> d]],
      message |-> Str(<<"Request failed with status code 500">>)] : d \in Details}
    \cup {[response |-> Undefined, message |-> Str(<<"Network Error">>)]}

\* the TypeError thrown by undefined.toString()
TypeErrorToString ==
    [response |-> Undefined, message |-> Str(<<"Cannot read properties of undefined">>)]

\* data.node_id of a successful POST /geocode response
NodeIds == {Undefined, Num(5), Str(<<"1", "2">>)}

\* texts typed into the legacy address inputs
Addresses == {"", "Wall St"}

\* suggestions offered by the Places autocomplete
Suggestions == {"Empire State", "Times Square"}

\* coordinates the Places geocoder can answer with
LatLngs == {[lat |-> 40, lng |-> 74], [lat |-> 41, lng |-> 73]}

Fields == {"start", "end"}

\* values the time slider can deliver through e.target.value
SliderValues == {Str(<<"2", "3">>)}

(***************************************************************************)
(* React: a state setter called after the component is unmounted is a      *)
(* no-op.                                                                  *)
(***************************************************************************)
SetState(isMounted, old, new) == IF isMounted THEN new ELSE old

(***************************************************************************)
(* The map viewport.  Legacy coordinates are in thousandths of a degree    *)
(* (SCALE = 0.005 is 5); a grid extreme that no node supplied stays at the *)
(* loop's initial Infinity or -Infinity.                                   *)
(***************************************************************************)
SCALE == 5
centerLat == 51505
centerLng == 0 - 90

Finite(v) == [kind |-> "fin", v |-> v]
NotANumber == [kind |-> "NaN"]
PlusInfinity == [kind |-> "Infinity"]
MinusInfinity == [kind |-> "-Infinity"]

DefaultView == [by |-> "default"]
UserView == [by |-> "user"]
FittedTo(bounds) == [by |-> "fit", bounds |-> bounds]

\* a < acc, for a coordinate of a node and the running minimum
LessThan(a, acc) ==
    /\ a.type = "number"
    /\ (acc.kind = "Infinity" \/ (acc.kind = "fin" /\ a.n < acc.v))

\* a > acc, for a coordinate of a node and the running maximum
GreaterThan(a, acc) ==
    /\ a.type = "number"
    /\ (acc.kind = "-Infinity" \/ (acc.kind = "fin" /\ a.n > acc.v))

\* nodes.forEach(n => { if (n.x < minX) minX = n.x; ... }) from index i on
RECURSIVE ScanNodes(_, _, _)
ScanNodes(nodes, i, acc) ==
    IF i > Len(nodes) THEN acc
    ELSE LET n == nodes[i]
         IN  ScanNodes(nodes, i + 1,
                [minX |-> IF LessThan(n.x, acc.minX) THEN Finite(n.x.n) ELSE acc.minX,
                 maxX |-> IF GreaterThan(n.x, acc.maxX) THEN Finite(n.x.n) ELSE acc.maxX,
                 minY |-> IF LessThan(n.y, acc.minY) THEN Finite(n.y.n) ELSE acc.minY,
                 maxY |-> IF GreaterThan(n.y, acc.maxY) THEN Finite(n.y.n) ELSE acc.maxY])

\* center + extreme * SCALE
Offset(center, extreme) ==
    IF extreme.kind = "fin" THEN Finite(center + extreme.v * SCALE) ELSE extreme

\* ChangeView's effect: fits to the box of all nodes when there is any node
ChangeView(nodes, old) ==
    IF Len(nodes) > 0
    THEN LET box == ScanNodes(nodes, 1,
                        [minX |-> PlusInfinity, maxX |-> MinusInfinity,
                         minY |-> PlusInfinity, maxY |-> MinusInfinity])
         IN  FittedTo(<<<<Offset(centerLat, box.minY), Offset(centerLng, box.minX)>>,
                        <<Offset(centerLat, box.maxY), Offset(centerLng, box.maxX)>>>>)
    ELSE old

\* Array.isArray(v)
IsArray(v) == v.type = "array"

\* pt && typeof pt.lat === 'number' && typeof pt.lng === 'number'
ValidPoint(pt) ==
    /\ pt # Null
    /\ pt # Undefined
    /\ pt.lat.type = "number"
    /\ pt.lng.type = "number"

\* node && typeof node.y === 'number' && typeof node.x === 'number'
ValidNode(node) ==
    /\ node # Null
    /\ node # Undefined
    /\ node.y.type = "number"
    /\ node.x.type = "number"

\* the route points MapBounds extends the bounds with
RoutePoints(route) ==
    IF route = Null \/ route = Undefined THEN << >>
    ELSE IF "geometry" \notin DOMAIN route THEN << >>
    ELSE IF Falsy(route.geometry) \/ ~IsArray(route.geometry) THEN << >>
    ELSE SelectSeq(route.geometry.items, ValidPoint)

\* the graph nodes MapBounds falls back to: { lat: node.y, lng: node.x }
NodePoints(nodes) ==
    LET valid == SelectSeq(nodes, ValidNode)
    IN  [i \in 1..Len(valid) |-> [lat |-> valid[i].y, lng |-> valid[i].x]]

\* bounds.extend(pt) for every point from index i on; a LatLngBounds is its
\* south, west, north and east
RECURSIVE ExtendAll(_, _, _)
ExtendAll(pts, i, b) ==
    IF i > Len(pts) THEN b
    ELSE LET lat == pts[i].lat.n
             lng == pts[i].lng.n
         IN  ExtendAll(pts, i + 1,
                IF b = Null
                THEN [south |-> lat, west |-> lng, north |-> lat, east |-> lng]
                ELSE [south |-> IF lat < b.south THEN lat ELSE b.south,
                      west |-> IF lng < b.west THEN lng ELSE b.west,
                      north |-> IF lat > b.north THEN lat ELSE b.north,
                      east |-> IF lng > b.east THEN lng ELSE b.east])

\* the points MapBounds fits to: the route's when it has any, else the graph's
PointsToFit(nodes, route) ==
    IF Len(RoutePoints(route)) > 0 THEN RoutePoints(route) ELSE NodePoints(nodes)

\* MapBounds' effect (Google variant); errors are caught and logged
MapBounds(map, nodes, route, old) ==
    IF ~map THEN old
    ELSE IF Len(PointsToFit(nodes, route)) > 0
         THEN FittedTo(ExtendAll(PointsToFit(nodes, route), 1, Null))
         ELSE old

\* the viewport effect of the variant's MapComponent
ViewEffect(m, map, nodes, route, old) ==
    IF m = "legacy" THEN ChangeView(nodes, old) ELSE MapBounds(map, nodes, route, old)

\* the effect's dependency list holds routeData in the Google variant only
RouteIsDependency(m) == m = "coord"

(***************************************************************************)
(* App (legacy variant): the layout poll.                                  *)
(***************************************************************************)
\* useEffect of the variant: the legacy App calls fetchGraph() on mount and
\* starts the 5 s interval; the coordinate App fetches nothing
PollsOnMount(m) == m = "legacy"

\* api.get('/network/layout'): one more request in flight
fetchGraph ==
    /\ layoutInFlight' = layoutInFlight + 1
    /\ layoutIssued' = layoutIssued + 1
    /\ afterUnmount' = [afterUnmount EXCEPT !.issued = @ \/ ~mounted]
    /\ UNCHANGED lastLayout

\* setInterval(fetchGraph, 5000) fires; nothing looks at an earlier request
IntervalTick ==
    /\ interval
    /\ layoutIssued < MaxPolls
    /\ fetchGraph
    /\ UNCHANGED <<mode, statsVars, viewVars, mounted, routeData, graph, interval, consoleLog, placesVars, legacyInputVars, panelVars,
                   routeVars>>

\* .then(res => setGraph(res.data)); res.data is a new object, so graph.nodes
\* changes identity and the viewport effect of the re-render runs
GraphAfterLayout(old, data) == data

LayoutSuccess(data) ==
    /\ layoutInFlight > 0
    /\ layoutInFlight' = layoutInFlight - 1
    /\ graph' = SetState(mounted, graph, GraphAfterLayout(graph, data))
    /\ lastLayout' = [outcome |-> "ok", data |-> SetState(mounted, lastLayout.data, data)]
    /\ afterUnmount' = [afterUnmount EXCEPT !.completed = @ \/ ~mounted]
    /\ viewport' = IF mounted
                   THEN ViewEffect(mode, mapReady, graph'.nodes, routeData, viewport)
                   ELSE viewport
    /\ UNCHANGED <<mode, statsVars, mapReady, lastEffect, rendered, mounted, routeData, interval,
                   layoutIssued, consoleLog, placesVars, legacyInputVars, panelVars,
                   routeVars>>

\* faulty variant: a failed poll resets the graph
GraphClearedByLayoutError(old) == EmptyGraph

\* .catch(err => console.error("Failed to load graph", err))
GraphAfterLayoutError(old) == old

LayoutFailure ==
    /\ layoutInFlight > 0
    /\ layoutInFlight' = layoutInFlight - 1
    /\ graph' = SetState(mounted, graph, GraphAfterLayoutError(graph))
    /\ consoleLog' = consoleLog \cup {"Failed to load graph"}
    /\ lastLayout' = [lastLayout EXCEPT !.outcome = "failed"]
    /\ afterUnmount' = [afterUnmount EXCEPT !.completed = @ \/ ~mounted]
    /\ UNCHANGED <<mode, statsVars, viewVars, mounted, routeData, interval, layoutIssued, placesVars, legacyInputVars, panelVars, routeVars>>

\* faulty variant: the effect has no cleanup
IntervalLeftRunning(live) == live

\* return () => clearInterval(interval)
IntervalAfterCleanup(live) == FALSE

\* the App tree is torn down: effect cleanups run, the UI is gone
Unmount ==
    /\ mounted
    /\ mounted' = FALSE
    /\ interval' = IntervalAfterCleanup(interval)
    /\ afterUnmount' = [graph |-> graph, route |-> routeData, issued |-> FALSE,
                        completed |-> FALSE]
    /\ UNCHANGED <<mode, statsVars, viewVars, routeData, graph, pollVars, consoleLog, placesVars,
                   legacyInputVars, panelVars, routeVars>>

\* the user drags or zooms the map
UserPan ==
    /\ mounted
    /\ viewport # UserView
    /\ viewport' = UserView
    /\ UNCHANGED <<mode, statsVars, mapReady, lastEffect, rendered, appVars, pollVars,
                   consoleLog, placesVars, legacyInputVars, panelVars, routeVars>>

(***************************************************************************)
(* PlacesAutocompleteInner (coordinate variant).                           *)
(***************************************************************************)
\* handleSelect(address) up to its first await: setValue(address, false),
\* clearSuggestions(), getGeocode({address}) issued
handleSelect(field, address) ==
    /\ mode = "coord"
    /\ mounted
    /\ selectsIssued < MaxSelects
    /\ selectsIssued' = selectsIssued + 1
    /\ fieldValue' = [fieldValue EXCEPT ![field] = address]
    /\ lookups' = lookups \cup
            {[id |-> selectsIssued + 1, field |-> field, address |-> address]}
    /\ UNCHANGED <<mode, statsVars, viewVars, appVars, pollVars, consoleLog, startLocation,
                   endLocation, selectedBy, legacyInputVars, panelVars, routeVars>>

\* faulty variant: the Location carries the coordinates without the address
SelectedLocationWithoutAddress(address, pt) == [address |-> "", lat |-> pt.lat, lng |-> pt.lng]

\* the Location handed to setSelected
SelectedLocation(address, pt) == [address |-> address, lat |-> pt.lat, lng |-> pt.lng]

\* getGeocode and getLatLng(results[0]) succeeded: setSelected({address, lat, lng})
GeocodeResolved(l, pt) ==
    /\ l \in lookups
    /\ lookups' = lookups \ {l}
    /\ startLocation' =
            IF l.field = "start"
            THEN SetState(mounted, startLocation, SelectedLocation(l.address, pt))
            ELSE startLocation
    /\ endLocation' =
            IF l.field = "end"
            THEN SetState(mounted, endLocation, SelectedLocation(l.address, pt))
            ELSE endLocation
    /\ selectedBy' = SetState(mounted, selectedBy, [selectedBy EXCEPT ![l.field] = l.id])
    /\ UNCHANGED <<mode, statsVars, viewVars, appVars, pollVars, consoleLog, fieldValue,
                   selectsIssued, legacyInputVars, panelVars, routeVars>>

\* getGeocode rejected, or results was empty: console.log("Error: ", error)
GeocodeRejected(l) ==
    /\ l \in lookups
    /\ lookups' = lookups \ {l}
    /\ consoleLog' = consoleLog \cup {"Error: "}
    /\ UNCHANGED <<mode, statsVars, viewVars, appVars, pollVars, startLocation, endLocation,
                   fieldValue, selectsIssued, selectedBy, legacyInputVars,
                   panelVars, routeVars>>

(***************************************************************************)
(* ControlPanel inputs.                                                    *)
(***************************************************************************)
\* onChange={e => setStartAddr(e.target.value)}
SetStartAddr(a) ==
    /\ mode = "legacy"
    /\ mounted
    /\ a # startAddr
    /\ startAddr' = a
    /\ UNCHANGED <<mode, statsVars, viewVars, appVars, pollVars, consoleLog, placesVars, endAddr, panelVars,
                   routeVars>>

\* onChange={e => setEndAddr(e.target.value)}
SetEndAddr(a) ==
    /\ mode = "legacy"
    /\ mounted
    /\ a # endAddr
    /\ endAddr' = a
    /\ UNCHANGED <<mode, statsVars, viewVars, appVars, pollVars, consoleLog, placesVars, startAddr, panelVars,
                   routeVars>>

\* onChange={e => setTime(e.target.value)}
SetTime(v) ==
    /\ mounted
    /\ v # time
    /\ time' = v
    /\ UNCHANGED <<mode, statsVars, viewVars, appVars, pollVars, consoleLog, placesVars, legacyInputVars,
                   loading, status, alertMsg, routeVars>>

(***************************************************************************)
(* ControlPanel.handleRoute.                                               *)
(***************************************************************************)
\* faulty variant: the button is not disabled while loading
TriggerDisabledIgnoringLoading ==
    IF mode = "coord"
    THEN startLocation = Null \/ endLocation = Null
    ELSE startAddr = "" \/ endAddr = ""

\* the Compute Route button's disabled attribute
TriggerDisabled ==
    IF mode = "coord"
    THEN loading \/ startLocation = Null \/ endLocation = Null
    ELSE loading \/ startAddr = "" \/ endAddr = ""

\* if (!startLocation || !endLocation) return;   (coordinate variant only)
ReturnsEarly == mode = "coord" /\ (startLocation = Null \/ endLocation = Null)

\* the body of POST /route in the coordinate variant
CoordPayload(start, end, t) ==
    [start_lat |-> start.lat, start_lon |-> start.lng,
     end_lat |-> end.lat, end_lon |-> end.lng, time_hour |-> ParseInt(t)]

\* the body of POST /route in the legacy variant
LegacyPayload(startNode, endNode, t) ==
    [start_node |-> JsToString(startNode), end_node |-> JsToString(endNode),
     time_hour |-> ParseInt(t)]

\* export const geocode = (address) => api.post('/geocode', { address })
geocode(address) == [url |-> "/geocode", address |-> address]

\* api.post('/route', payload)
PostRoute(payload) == [url |-> "/route", body |-> payload]

\* faulty variant: the legacy handler issues both geocode calls at once
BothGeocodesAtStart ==
    IF mode = "coord"
    THEN <<PostRoute(CoordPayload(startLocation, endLocation, time))>>
    ELSE <<geocode(startAddr), geocode(endAddr)>>

\* the calls handleRoute has issued when it suspends at its first await
CallsAtStart ==
    IF mode = "coord"
    THEN <<PostRoute(CoordPayload(startLocation, endLocation, time))>>
    ELSE <<geocode(startAddr)>>

\* the invocation suspended at its first await: the POST itself in the coordinate
\* variant, geocode(startAddr) in the legacy one; the closure keeps the inputs
\* of the render the click happened in
NewRequest(id) ==
    IF mode = "coord"
    THEN [id |-> id, stage |-> "post", start |-> startLocation, end |-> endLocation,
          time |-> time, startNode |-> Undefined, endNode |-> Undefined,
          payload |-> CoordPayload(startLocation, endLocation, time),
          prevRoute |-> routeData, calls |-> CallsAtStart]
    ELSE [id |-> id, stage |-> "geoStart", start |-> startAddr, end |-> endAddr,
          time |-> time, startNode |-> Undefined, endNode |-> Undefined,
          payload |-> Null, prevRoute |-> routeData, calls |-> CallsAtStart]

\* the status line shown once handleRoute has suspended
StatusWhilePending ==
    IF mode = "coord"
    THEN "Downloading map & Computing route... (this may take a moment)"
    ELSE "Geocoding addresses..."

\* faulty variant: the displayed route is cleared when a request starts
RouteClearedAtStart(old) == Null

\* handleRoute does not call onRouteComputed before the response is in
RouteAfterStart(old) == old

\* onClick={handleRoute} on the enabled button, up to the first await
handleRoute ==
    /\ mounted
    /\ ~TriggerDisabled
    /\ routesIssued < MaxRoutes
    /\ IF ReturnsEarly
       THEN UNCHANGED <<loading, status, routeReqs, routesIssued>>
       ELSE /\ loading' = TRUE
            /\ status' = StatusWhilePending
            /\ routesIssued' = routesIssued + 1
            /\ routeReqs' = routeReqs \cup {NewRequest(routesIssued + 1)}
    /\ routeData' = RouteAfterStart(routeData)
    /\ UNCHANGED <<mode, statsVars, viewVars, mounted, graph, interval, afterUnmount,
                   pollVars, consoleLog, placesVars, legacyInputVars, time, alertMsg,
                   responses, lastSettled>>

\* err.response?.data?.detail
OptDetail(err) ==
    IF err.response = Undefined THEN Undefined ELSE err.response.data.detail

\* faulty variant: the server's detail is ignored
ErrorMsgFromMessage(err) == err.message

\* const msg = err.response?.data?.detail || err.message
ErrorMsg(err) == OrElse(OptDetail(err), err.message)

\* the argument of alert() in the catch block of the variant
AlertText(m, msg) ==
    IF m = "coord"
    THEN Concat(Concat(Str(<<"Error: ">>), msg), Str(<<". Make sure backend is running.">>))
    ELSE Concat(Str(<<"Error: ">>), msg)

\* faulty variant: loading is not reset
LoadingLeftByFinally(old) == old

\* finally { setLoading(false) }
LoadingAfterFinally(old) == FALSE

\* faulty variant: the catch block clears the displayed route
RouteClearedByCatch(old) == Null

\* the catch block leaves the route slot alone
RouteAfterCatch(old) == old

\* catch (err) {...} finally {...} of invocation r
Catch(r, err) ==
    /\ consoleLog' = consoleLog \cup {"route error"}
    /\ alertMsg' = AlertText(mode, ErrorMsg(err))
    /\ status' = SetState(mounted, status, "Error occurred.")
    /\ loading' = SetState(mounted, loading, LoadingAfterFinally(loading))
    /\ routeData' = SetState(mounted, routeData, RouteAfterCatch(routeData))
    /\ routeReqs' = routeReqs \ {r}
    /\ lastSettled' = [id |-> r.id, outcome |-> "error", prevRoute |-> r.prevRoute,
                       err |-> err]
    /\ afterUnmount' = [afterUnmount EXCEPT !.completed = @ \/ ~mounted]
    /\ UNCHANGED <<mode, statsVars, viewVars, mounted, graph, interval, pollVars, placesVars,
                   legacyInputVars, time, routesIssued, responses>>

\* legacy: geocode(startAddr) resolved; geocode(endAddr) is issued
GeocodeStartOk(r, nodeId) ==
    /\ r \in routeReqs
    /\ r.stage = "geoStart"
    /\ routeReqs' = (routeReqs \ {r}) \cup
            {[r EXCEPT !.stage = "geoEnd", !.startNode = nodeId,
                       !.calls = Append(@, geocode(r.end))]}
    /\ UNCHANGED <<mode, statsVars, viewVars, appVars, pollVars, consoleLog, placesVars, legacyInputVars,
                   panelVars, routesIssued, responses, lastSettled>>

\* legacy: geocode(endAddr) resolved, the POST is issued
GeocodeEndOkPosts(r, nodeId) ==
    /\ r \in routeReqs
    /\ r.stage = "geoEnd"
    /\ ~(ToStringThrows(r.startNode) \/ ToStringThrows(nodeId))
    /\ status' = SetState(mounted, status, "Computing optimal route...")
    /\ routeReqs' = (routeReqs \ {r}) \cup
            {[r EXCEPT !.stage = "post", !.endNode = nodeId,
                       !.payload = LegacyPayload(r.startNode, nodeId, r.time),
                       !.calls = Append(@, PostRoute(LegacyPayload(r.startNode, nodeId, r.time)))]}
    /\ UNCHANGED <<mode, statsVars, viewVars, appVars, pollVars, consoleLog, placesVars, legacyInputVars,
                   time, loading, alertMsg, routesIssued, responses, lastSettled>>

\* legacy: geocode(endAddr) resolved, but a node id is missing and .toString()
\* throws into the catch block
GeocodeEndOkThrows(r, nodeId) ==
    /\ r \in routeReqs
    /\ r.stage = "geoEnd"
    /\ ToStringThrows(r.startNode) \/ ToStringThrows(nodeId)
    /\ Catch(r, TypeErrorToString)

\* onRouteComputed(res.data)
RouteAfterSuccess(old, data) == data

\* api.post('/route', ...) resolved: onRouteComputed, setStatus, finally
RouteSuccess(r, data) ==
    /\ r \in routeReqs
    /\ r.stage = "post"
    /\ routeData' = SetState(mounted, routeData, RouteAfterSuccess(routeData, data))
    /\ status' = SetState(mounted, status, "Route computed!")
    /\ loading' = SetState(mounted, loading, LoadingAfterFinally(loading))
    /\ routeReqs' = routeReqs \ {r}
    /\ responses' = responses \cup {[id |-> r.id, data |-> data]}
    /\ lastSettled' = [id |-> r.id, outcome |-> "success", prevRoute |-> r.prevRoute,
                       err |-> Undefined]
    /\ afterUnmount' = [afterUnmount EXCEPT !.completed = @ \/ ~mounted]
    /\ viewport' = IF mounted /\ RouteIsDependency(mode)
                   THEN ViewEffect(mode, mapReady, graph.nodes, routeData', viewport)
                   ELSE viewport
    /\ UNCHANGED <<mode, statsVars, mapReady, lastEffect, rendered, mounted, graph, interval, pollVars,
                   consoleLog, placesVars, legacyInputVars, time, alertMsg, routesIssued>>

\* the awaited call of invocation r (a geocode or the POST) rejected
RouteFailure(r, err) ==
    /\ r \in routeReqs
    /\ Catch(r, err)

(***************************************************************************)
(* The client.                                                             *)
(***************************************************************************)
\* everything but the App's two slots and the map
InitControls ==
    /\ mode \in {"legacy", "coord"}
    /\ mounted = TRUE
    /\ interval = PollsOnMount(mode)
    /\ layoutInFlight = (IF PollsOnMount(mode) THEN 1 ELSE 0)
    /\ layoutIssued = (IF PollsOnMount(mode) THEN 1 ELSE 0)
    /\ lastLayout = [outcome |-> "none", data |-> EmptyGraph]
    /\ afterUnmount = [graph |-> EmptyGraph, route |-> Null, issued |-> FALSE,
                       completed |-> FALSE]
    /\ consoleLog = {}
    /\ startLocation = Null
    /\ endLocation = Null
    /\ fieldValue = [f \in Fields |-> ""]
    /\ lookups = {}
    /\ selectsIssued = 0
    /\ startAddr = ""
    /\ endAddr = ""
    /\ time = Num(8)
    /\ loading = FALSE
    /\ status = ""
    /\ alertMsg = Undefined
    /\ routeReqs = {}
    /\ routesIssued = 0
    /\ responses = {}
    /\ lastSettled = [id |-> 0, outcome |-> "none", prevRoute |-> Null, err |-> Undefined]
    /\ panelData = Null
    /\ bars = Undefined
    /\ lastEffect = [ran |-> FALSE, before |-> DefaultView]
    /\ rendered = Undefined
    /\ selectedBy = [f \in Fields |-> 0]

Init ==
    /\ InitControls
    /\ routeData = Null
    /\ graph = EmptyGraph
    /\ viewport = DefaultView
    /\ mapReady = TRUE

Next ==
    \/ IntervalTick
    \/ \E data \in LayoutResponses : LayoutSuccess(data)
    \/ LayoutFailure
    \/ Unmount
    \/ \E f \in Fields, a \in Suggestions : handleSelect(f, a)
    \/ \E l \in lookups, pt \in LatLngs : GeocodeResolved(l, pt)
    \/ \E l \in lookups : GeocodeRejected(l)
    \/ \E a \in Addresses : SetStartAddr(a)
    \/ \E a \in Addresses : SetEndAddr(a)
    \/ \E v \in SliderValues : SetTime(v)
    \/ handleRoute
    \/ \E r \in routeReqs, n \in NodeIds : GeocodeStartOk(r, n)
    \/ \E r \in routeReqs, n \in NodeIds : GeocodeEndOkPosts(r, n)
    \/ \E r \in routeReqs, n \in NodeIds : GeocodeEndOkThrows(r, n)
    \/ \E r \in routeReqs, data \in RouteResponses(mode) : RouteSuccess(r, data)
    \/ \E r \in routeReqs, err \in Errors : RouteFailure(r, err)

Spec == Init /\ [][Next]_vars

(***************************************************************************)
(* StatsPanel: the cost bars, as a function of the data prop.              *)
(* A JavaScript number is a finite ratio num/den (den > 0), NaN or         *)
(* Infinity; the cost values are non-negative.                             *)
(***************************************************************************)
Fin(num, den) == [kind |-> "fin", num |-> num, den |-> den]
NaN == [kind |-> "NaN"]
Infinity == [kind |-> "Infinity"]

\* a / b on non-negative integers
Divide(a, b) ==
    IF b # 0 THEN Fin(a, b)
    ELSE IF a = 0 THEN NaN ELSE Infinity

\* q * k for an integer k > 0
Times(q, k) == IF q.kind = "fin" THEN Fin(q.num * k, q.den) ELSE q

\* p <= q on finite ratios
FinLeq(p, q) == p.num * q.den <= q.num * p.den

\* Math.max(a, b): NaN if either is NaN
MathMax(a, b) ==
    IF a.kind = "NaN" \/ b.kind = "NaN" THEN NaN
    ELSE IF a.kind = "Infinity" \/ b.kind = "Infinity" THEN Infinity
    ELSE IF FinLeq(a, b) THEN b ELSE a

\* Math.min(a, b): NaN if either is NaN
MathMin(a, b) ==
    IF a.kind = "NaN" \/ b.kind = "NaN" THEN NaN
    ELSE IF a.kind = "Infinity" THEN b
    ELSE IF b.kind = "Infinity" THEN a
    ELSE IF FinLeq(a, b) THEN a ELSE b

\* a destructuring default: `field = 0` applies to undefined only
WithDefault(v) == IF v.type = "undefined" THEN 0 ELSE v.n

\* const getPercent = (val) => Math.min(100, Math.max(5, (val / total_cost) * 100))
\* (defined by StatsPanel, called nowhere)
getPercent(val, total_cost) ==
    MathMin(Fin(100, 1), MathMax(Fin(5, 1), Times(Divide(val, total_cost), 100)))

\* CostBar: const percent = (value / total) * 100;  width: `${percent}%`
CostBar(value, total) == Times(Divide(value, total), 100)

\* what StatsPanel returns for its data prop: null, or the four CostBar widths
StatsPanel(data) ==
    IF data = Null \/ data = Undefined THEN Null
    ELSE IF data.stats = Undefined \/ data.stats = Null THEN Null
    ELSE LET total_cost == WithDefault(data.stats.total_cost)
         IN  [time |-> CostBar(WithDefault(data.stats.time_cost), total_cost),
              congestion |-> CostBar(WithDefault(data.stats.congestion_penalty), total_cost),
              emission |-> CostBar(WithDefault(data.stats.emission_cost), total_cost),
              social |-> CostBar(WithDefault(data.stats.social_cost), total_cost)]

\* cost component values and totals a route response can carry
CostValues == {Undefined, Num(0), Num(1), Num(150)}
CostTotals == {Undefined, Num(0), Num(100)}

CostVectors ==
    [total_cost : CostTotals, time_cost : CostValues, congestion_penalty : CostValues,
     emission_cost : {Num(0), Num(150)}, social_cost : {Num(1), Num(150)}]

InitStats ==
    /\ Init
    /\ mode = "coord"

\* the panel is given a data prop
ReceiveData(data) ==
    /\ bars = Undefined
    /\ panelData = Null
    /\ panelData' = data
    /\ UNCHANGED <<mode, viewVars, appVars, pollVars, consoleLog, placesVars,
                   legacyInputVars, panelVars, routeVars, bars>>

\* one render of <StatsPanel data={panelData} />
RenderStatsPanel ==
    /\ bars = Undefined
    /\ bars' = StatsPanel(panelData)
    /\ UNCHANGED <<mode, viewVars, appVars, pollVars, consoleLog, placesVars,
                   legacyInputVars, panelVars, routeVars, panelData>>

NextStats ==
    \/ \E cv \in CostVectors : ReceiveData([stats |-> cv])
    \/ ReceiveData([stats |-> Undefined])
    \/ RenderStatsPanel

SpecStats == InitStats /\ [][NextStats]_vars

(***************************************************************************)
(* Properties.                                                             *)
(***************************************************************************)
BothResolved ==
    IF mode = "coord"
    THEN startLocation # Null /\ endLocation # Null
    ELSE startAddr # "" /\ endAddr # ""

C2_SingleRouteRequest ==
    /\ Cardinality(routeReqs) <= 1
    /\ Cardinality({r \in routeReqs : r.stage = "post"}) <= 1
    /\ (mounted /\ routeReqs # {}) => (loading /\ TriggerDisabled)

\* a second request is pending, both locations are resolved, and the trigger
\* is disabled
C2_Witness ==
    /\ mounted
    /\ routesIssued = 2
    /\ \E r \in routeReqs : r.stage = "post"
    /\ BothResolved
    /\ TriggerDisabled

\* C3: every POST /route in flight was built from two resolved locations:
\* in the coordinate variant both Locations are non-null and supply the
\* coordinates, in the legacy variant both geocode calls delivered a node id.
C3_RouteOnlyWhenResolved ==
    \A r \in routeReqs : r.stage = "post" =>
        IF mode = "coord"
        THEN /\ r.start # Null /\ r.end # Null
             /\ startLocation # Null /\ endLocation # Null
             /\ r.payload.start_lat = r.start.lat /\ r.payload.start_lon = r.start.lng
             /\ r.payload.end_lat = r.end.lat /\ r.payload.end_lon = r.end.lng
        ELSE /\ r.startNode.type \in {"number", "string"}
             /\ r.endNode.type \in {"number", "string"}
             /\ r.payload.start_node.type = "string"
             /\ r.payload.end_node.type = "string"

\* a legacy POST is in flight whose start node came back as the number 5
C3_Witness ==
    \E r \in routeReqs :
        /\ r.stage = "post"
        /\ mode = "legacy"
        /\ r.startNode = Num(5)
        /\ r.payload.start_node = Str(<<"5">>)

\* C4: after a failed route request the route slot holds exactly the value it
\* held when that request was started.
C4_FailureKeepsRoute ==
    lastSettled.outcome = "error" =>
        /\ routeData = lastSettled.prevRoute
        /\ \A p \in responses : p.id # lastSettled.id

\* a route was displayed, the next request failed, the route is still there
C4_Witness ==
    /\ lastSettled.outcome = "error"
    /\ lastSettled.prevRoute # Null
    /\ routeData = lastSettled.prevRoute

\* C5: once the network call of a route request has completed, with success
\* or with an error, loading is false and the trigger is enabled whenever both
\* locations are resolved; loading is true only while a request is pending.
C5_ReturnsToIdle ==
    (mounted /\ routeReqs = {}) =>
        /\ loading = FALSE
        /\ BothResolved => ~TriggerDisabled

\* a request has failed and the trigger is enabled again
C5_Witness ==
    /\ mounted
    /\ lastSettled.outcome = "error"
    /\ routeReqs = {}
    /\ BothResolved
    /\ ~TriggerDisabled

\* the detail of the last failure, when it is a non-empty string
C6_DetailPresent ==
    /\ lastSettled.err.response # Undefined
    /\ lastSettled.err.response.data.detail.type = "string"
    /\ lastSettled.err.response.data.detail.s # << >>

C6_Shown ==
    IF C6_DetailPresent THEN lastSettled.err.response.data.detail
    ELSE lastSettled.err.message

\* C6 as stated: the alert carries the detail when the response has one and
\* the transport message otherwise, and for the detail "no path found" the
\* message is "Error: no path found".
C6_Original ==
    lastSettled.outcome = "error" =>
        /\ \E i \in 1..Len(alertMsg.s) : <<alertMsg.s[i]>> = C6_Shown.s
        /\ (C6_DetailPresent /\ C6_Shown = Str(<<"no path found">>)) =>
                alertMsg = Str(<<"Error: ", "no path found">>)

\* C6 (amended): the alert text is "Error: " + msg in the legacy variant and
\* "Error: " + msg + ". Make sure backend is running." in the coordinate
\* variant, where msg is the response's detail when that is a non-empty
\* string and the error's own message otherwise.
C6_AlertMessage ==
    lastSettled.outcome = "error" =>
        alertMsg.s =
            IF mode = "legacy"
            THEN <<"Error: ">> \o C6_Shown.s
            ELSE <<"Error: ">> \o C6_Shown.s \o <<". Make sure backend is running.">>

\* a coordinate-variant request failed with detail "no path found"
C6_Witness ==
    /\ lastSettled.outcome = "error"
    /\ mode = "coord"
    /\ C6_DetailPresent
    /\ C6_Shown = Str(<<"no path found">>)
    /\ alertMsg = Str(<<"Error: ", "no path found", ". Make sure backend is running.">>)

\* C7: at most one GET /network/layout request is in flight.
C7_PollSerialized == layoutInFlight <= 1

\* C8: the graph is the initial empty graph or the whole body of one successful
\* poll, namely of the last poll that succeeded; a failed poll leaves it as it was.
C8_PollResilience ==
    /\ graph \in {EmptyGraph} \cup LayoutResponses
    /\ graph = lastLayout.data
    /\ lastLayout.outcome = "none" => graph = EmptyGraph

\* a poll succeeded, the next one to settle failed, and the graph is still there
C8_Witness ==
    /\ lastLayout.outcome = "failed"
    /\ "Failed to load graph" \in consoleLog
    /\ graph = GridB

\* C9: after the unmount no layout request is issued, the interval is dead,
\* and the graph and the route slot keep the values they had at the unmount,
\* whatever completes afterwards.
C9_NothingAfterUnmount ==
    ~mounted =>
        /\ ~interval
        /\ ~afterUnmount.issued
        /\ graph = afterUnmount.graph
        /\ routeData = afterUnmount.route

\* a network call completed after the unmount of a view that polled
C9_Witness ==
    /\ ~mounted
    /\ mode = "legacy"
    /\ afterUnmount.completed
    /\ layoutInFlight = 0
    /\ routeReqs = {}
    /\ routesIssued > 0

\* barPercent of the specification: 0 without a usable total, else the
\* percentage clamped to [5, 100]
C10_barPercent(v, t) ==
    IF t = 0 THEN Fin(0, 1)
    ELSE IF v * 100 < 5 * t THEN Fin(5, 1)
    ELSE IF v * 100 > 100 * t THEN Fin(100, 1)
    ELSE Fin(v * 100, t)

C10_Same(w, q) == w.kind = "fin" /\ w.num * q.den = q.num * w.den

\* C10: every rendered bar width equals barPercent(value, total).
C10_BarWidthIsBarPercent ==
    (bars # Undefined /\ bars # Null) =>
        LET st == panelData.stats
            t == WithDefault(st.total_cost)
        IN  /\ C10_Same(bars.time, C10_barPercent(WithDefault(st.time_cost), t))
            /\ C10_Same(bars.congestion,
                        C10_barPercent(WithDefault(st.congestion_penalty), t))
            /\ C10_Same(bars.emission, C10_barPercent(WithDefault(st.emission_cost), t))
            /\ C10_Same(bars.social, C10_barPercent(WithDefault(st.social_cost), t))

(***************************************************************************)
(* MapComponent: what one render draws, and the viewport effect, as        *)
(* functions of the graph and route props.                                 *)
(***************************************************************************)
\* center + v * SCALE for a coordinate read from a node
Project(center, v) ==
    IF v.type = "number" THEN Finite(center + v.n * SCALE) ELSE NotANumber

\* getLatLng(x, y)
getLatLng(x, y) == <<Project(centerLat, y), Project(centerLng, x)>>

\* graph.nodes.find(n => n.id === id), as the index of the first match or 0
FindNode(nodes, id) ==
    IF \E i \in 1..Len(nodes) : nodes[i].id = id
    THEN CHOOSE i \in 1..Len(nodes) :
            nodes[i].id = id /\ \A j \in 1..(i - 1) : nodes[j].id # id
    ELSE 0

\* getNodePos(id): return n ? getLatLng(n.x, n.y) : [0, 0]
getNodePos(nodes, id) ==
    IF FindNode(nodes, id) # 0
    THEN getLatLng(nodes[FindNode(nodes, id)].x, nodes[FindNode(nodes, id)].y)
    ELSE <<Finite(0), Finite(0)>>

\* weight of an edge's polyline by load = current_flow / capacity
EdgeWeight(edge) ==
    IF edge.capacity = 0
    THEN (IF edge.current_flow > 0 THEN 4 ELSE 2)
    ELSE IF edge.current_flow * 10 > 8 * edge.capacity THEN 4
    ELSE IF edge.current_flow * 10 > 5 * edge.capacity THEN 3
    ELSE 2

\* the Leaflet MapComponent: one polyline per edge, one marker per node, and
\* the route polyline through getNodePos of every path id
LeafletMap(g, route) ==
    IF route # Null /\ "path" \notin DOMAIN route
    THEN [threw |-> TRUE]
    ELSE [threw |-> FALSE,
          edges |-> [i \in 1..Len(g.edges) |->
                        [positions |-> <<getNodePos(g.nodes, g.edges[i].source),
                                         getNodePos(g.nodes, g.edges[i].target)>>,
                         weight |-> EdgeWeight(g.edges[i])]],
          nodes |-> [i \in 1..Len(g.nodes) |-> getLatLng(g.nodes[i].x, g.nodes[i].y)],
          route |-> IF route = Null THEN Null
                    ELSE [positions |->
                            [i \in 1..Len(route.path) |-> getNodePos(g.nodes, route.path[i])]]]

\* the Google MapComponent: the geometry as one polyline with a marker at each end
GoogleMap(g, route) ==
    IF route = Null THEN [threw |-> FALSE, route |-> Null]
    ELSE IF "geometry" \in DOMAIN route /\ ~Falsy(route.geometry)
            /\ IsArray(route.geometry) /\ Len(route.geometry.items) > 0
         THEN [threw |-> FALSE,
               route |-> [path |-> route.geometry.items,
                          startMarker |-> route.geometry.items[1],
                          endMarker |-> route.geometry.items[Len(route.geometry.items)]]]
         ELSE [threw |-> FALSE, route |-> Null]

MapComponent(m, g, route) == IF m = "legacy" THEN LeafletMap(g, route) ELSE GoogleMap(g, route)

\* graphs with nodes that lack coordinates, and with edges to missing nodes
GridNoCoordinates ==
    [nodes |-> <<[id |-> "5", x |-> Undefined, y |-> Undefined]>>, edges |-> << >>]

GridPartial ==
    [nodes |-> <<[id |-> "5", x |-> Num(3), y |-> Num(1)],
                 [id |-> "7", x |-> Undefined, y |-> Num(9)]>>,
     edges |-> <<[source |-> "5", target |-> "7", capacity |-> 10, current_flow |-> 6]>>]

GridDangling ==
    [nodes |-> <<[id |-> "5", x |-> Num(1), y |-> Num(1)],
                 [id |-> "12", x |-> Num(2), y |-> Num(3)]>>,
     edges |-> <<[source |-> "5", target |-> "12", capacity |-> 10, current_flow |-> 3],
                 [source |-> "5", target |-> "99", capacity |-> 10, current_flow |-> 9]>>]

ViewGraphs == {EmptyGraph, GridA, GridB, GridNoCoordinates, GridPartial, GridDangling}

\* route props of either shape, well formed and malformed
ViewRoutes(m) ==
    {Null} \cup RouteResponses(m) \cup
    (IF m = "legacy"
     THEN {[path |-> <<"5", "99", "12">>, stats |-> CostsA],
           [path |-> <<"5", "12">>,
            geometry |-> Arr(<<[lat |-> Num(40), lng |-> Num(74)]>>), stats |-> CostsA]}
     ELSE {[geometry |-> Arr(<<Null, [lat |-> Undefined, lng |-> Num(74)]>>),
            stats |-> CostsA],
           [geometry |-> Arr(<<[lat |-> Num(45), lng |-> Num(70)], Null,
                               [lat |-> Num(44), lng |-> Str(<<"71">>)]>>),
            stats |-> CostsA],
           [geometry |-> Arr(<< >>), stats |-> CostsA],
           [geometry |-> Str(<<"LINESTRING">>), stats |-> CostsA],
           [path |-> <<"5", "12">>, stats |-> CostsA]})

InitView ==
    /\ InitControls
    /\ graph \in ViewGraphs
    /\ routeData \in ViewRoutes(mode)
    /\ viewport \in {DefaultView, UserView}
    /\ mapReady \in BOOLEAN

\* the viewport effect runs for the props at hand
RunViewEffect ==
    /\ ~lastEffect.ran
    /\ viewport' = ViewEffect(mode, mapReady, graph.nodes, routeData, viewport)
    /\ lastEffect' = [ran |-> TRUE, before |-> viewport]
    /\ UNCHANGED <<mode, statsVars, mapReady, rendered, appVars, pollVars, consoleLog,
                   placesVars, legacyInputVars, panelVars, routeVars>>

\* one render of <MapComponent graph={graph} routeData={routeData} />
RenderMap ==
    /\ rendered = Undefined
    /\ rendered' = MapComponent(mode, graph, routeData)
    /\ UNCHANGED <<mode, statsVars, viewport, mapReady, lastEffect, appVars, pollVars,
                   consoleLog, placesVars, legacyInputVars, panelVars, routeVars>>

NextView ==
    \/ RunViewEffect
    \/ RenderMap

SpecView == InitView /\ [][NextView]_vars

(***************************************************************************)
(* The legacy client while no route is requested: the layout poll, the     *)
(* ControlPanel inputs and a user who pans the map.                        *)
(***************************************************************************)
InitPoll == Init /\ mode = "legacy"

NextPoll ==
    \/ IntervalTick
    \/ \E data \in LayoutResponses : LayoutSuccess(data)
    \/ LayoutFailure
    \/ Unmount
    \/ UserPan
    \/ \E a \in Addresses : SetStartAddr(a)
    \/ \E a \in Addresses : SetEndAddr(a)
    \/ \E v \in SliderValues : SetTime(v)

SpecPoll == InitPoll /\ [][NextPoll]_vars

(***************************************************************************)
(* Properties of the map.                                                  *)
(***************************************************************************)
\* the valid geometry points of a route prop, as a set
C11_RouteSet(route) ==
    IF route = Null THEN {}
    ELSE IF "geometry" \notin DOMAIN route THEN {}
    ELSE IF route.geometry.type # "array" THEN {}
    ELSE {route.geometry.items[i] :
            i \in {j \in 1..Len(route.geometry.items) : ValidPoint(route.geometry.items[j])}}

\* the valid nodes of a graph, as a set of points
C11_NodeSet(nodes) ==
    {[lat |-> nodes[i].y, lng |-> nodes[i].x] :
        i \in {j \in 1..Len(nodes) : ValidNode(nodes[j])}}

C11_Min(S) == CHOOSE v \in S : \A w \in S : v <= w

C11_Max(S) == CHOOSE v \in S : \A w \in S : v >= w

\* the viewport fitted to a non-empty set of points; grid points are projected
\* about the centre in the Leaflet variant
C11_Fit(m, P, grid) ==
    LET south == C11_Min({p.lat.n : p \in P})
        west == C11_Min({p.lng.n : p \in P})
        north == C11_Max({p.lat.n : p \in P})
        east == C11_Max({p.lng.n : p \in P})
    IN  IF m = "coord"
        THEN FittedTo([south |-> south, west |-> west, north |-> north, east |-> east])
        ELSE IF grid
        THEN FittedTo(<<<<Finite(centerLat + south * SCALE), Finite(centerLng + west * SCALE)>>,
                        <<Finite(centerLat + north * SCALE), Finite(centerLng + east * SCALE)>>>>)
        ELSE FittedTo(<<<<Finite(south), Finite(west)>>, <<Finite(north), Finite(east)>>>>)

C11_Expected(m, g, route, old) ==
    IF C11_RouteSet(route) # {} THEN C11_Fit(m, C11_RouteSet(route), FALSE)
    ELSE IF C11_NodeSet(g.nodes) # {} THEN C11_Fit(m, C11_NodeSet(g.nodes), TRUE)
    ELSE old

\* C11: once the viewport effect has run on a map that is available, the
\* viewport is fitted to the valid route geometry points alone when there is
\* any, else to the valid graph nodes when there is any, else it is what it
\* was before the effect.
C11_FittingPolicy ==
    (lastEffect.ran /\ mapReady) =>
        viewport = C11_Expected(mode, graph, routeData, lastEffect.before)

(***************************************************************************)
(* Properties of the route slot and of the location fields.                *)
(***************************************************************************)
\* C12 as stated: while a route request is pending the route slot is null.
C12_Original == (mounted /\ routeReqs # {}) => routeData = Null

\* C12: starting a route request leaves the route slot alone; while the request
\* is pending the slot still holds what it held when the button was clicked.
C12_RouteKeptWhilePending == \A r \in routeReqs : routeData = r.prevRoute

\* a request is pending while the route of an earlier one is displayed
C12_Witness == \E r \in routeReqs : mounted /\ r.prevRoute # Null /\ routeData # Null

C13_Location(f) == IF f = "start" THEN startLocation ELSE endLocation

C13_LocationAfter(f) == IF f = "start" THEN startLocation' ELSE endLocation'

\* the field is unresolved, or holds an address with both coordinates of a
\* geocode answer
C13_Whole(f) ==
    \/ C13_Location(f) = Null
    \/ \E a \in Suggestions, pt \in LatLngs :
            C13_Location(f) = [address |-> a, lat |-> pt.lat, lng |-> pt.lng]

\* a Location is set only by a lookup that ends with an answer, to the address
\* of that lookup and the coordinates of the answer; a lookup that ends without
\* setting its field is logged
C13_LookupStep ==
    /\ \A f \in Fields :
            C13_LocationAfter(f) # C13_Location(f) =>
                \E l \in lookups, pt \in LatLngs :
                    /\ l.field = f
                    /\ l \notin lookups'
                    /\ C13_LocationAfter(f) =
                            [address |-> l.address, lat |-> pt.lat, lng |-> pt.lng]
    /\ \A l \in lookups :
            (mounted /\ l \notin lookups' /\ selectedBy'[l.field] # l.id) =>
                /\ "Error: " \in consoleLog'
                /\ startLocation' = startLocation
                /\ endLocation' = endLocation

\* C13: in the coordinate variant startLocation and endLocation are each null or
\* the address, lat and lng of one successful geocode of that address; a failed
\* geocode is logged and resolves the field to nothing.
C13_LocationsWhole == [](\A f \in Fields : C13_Whole(f)) /\ [][C13_LookupStep]_vars

\* one field resolved, the other one's lookup failed and left it unresolved
C13_Witness ==
    /\ mode = "coord"
    /\ startLocation # Null
    /\ startLocation.address = fieldValue["start"]
    /\ endLocation = Null
    /\ fieldValue["end"] \in Suggestions
    /\ lookups = {}
    /\ "Error: " \in consoleLog

\* C14: a lookup that ends for a selection older than the one whose Location
\* the field holds leaves that Location alone, so the field ends up with the
\* later selection's Location whatever the order in which the lookups complete.
C14_LatestSelectionWins ==
    [][\A l \in lookups :
            (mounted /\ l \notin lookups' /\ l.id < selectedBy[l.field]) =>
                C13_LocationAfter(l.field) = C13_Location(l.field)]_vars

\* the projected positions of the nodes of the current snapshot
C15_NodePositions ==
    {<<Project(centerLat, graph.nodes[i].y), Project(centerLng, graph.nodes[i].x)>> :
        i \in 1..Len(graph.nodes)}

C15_Resolves(id) == \E i \in 1..Len(graph.nodes) : graph.nodes[i].id = id

\* C15: in a Leaflet render every edge polyline end and every route vertex is
\* the projection of a node of the snapshot; an edge with an unresolvable end
\* draws no polyline and an unresolvable path id adds no vertex.
C15_DanglingSkipped ==
    (mode = "legacy" /\ rendered # Undefined /\ ~rendered.threw) =>
        /\ \A i \in DOMAIN rendered.edges :
                /\ rendered.edges[i].positions[1] \in C15_NodePositions
                /\ rendered.edges[i].positions[2] \in C15_NodePositions
        /\ Len(rendered.edges) =
                Cardinality({i \in 1..Len(graph.edges) :
                                C15_Resolves(graph.edges[i].source)
                                /\ C15_Resolves(graph.edges[i].target)})
        /\ rendered.route # Null =>
                /\ \A i \in DOMAIN rendered.route.positions :
                        rendered.route.positions[i] \in C15_NodePositions
                /\ Len(rendered.route.positions) =
                        Cardinality({i \in 1..Len(routeData.path) :
                                        C15_Resolves(routeData.path[i])})

(***************************************************************************)
(* Properties of the running client's viewport and of the legacy calls.    *)
(***************************************************************************)
\* C16: a step that changes neither the graph content nor the route content
\* performs no fit: it changes the viewport only if it is the user's own pan or
\* zoom.  A user pan made after the last data change is therefore never
\* overridden while the layout poll keeps answering with the same layout.
C16_FitOnlyOnDataChange ==
    [][(graph' = graph /\ routeData' = routeData /\ viewport' # viewport)
            => viewport' = UserView]_vars

\* the calls a legacy invocation has issued once it is at the given await
C17_CallsUpTo(stage, start, end, payload) ==
    IF stage = "geoStart" THEN <<[url |-> "/geocode", address |-> start]>>
    ELSE IF stage = "geoEnd"
    THEN <<[url |-> "/geocode", address |-> start], [url |-> "/geocode", address |-> end]>>
    ELSE <<[url |-> "/geocode", address |-> start], [url |-> "/geocode", address |-> end],
           [url |-> "/route", body |-> payload]>>

\* the invocation r ends in this step
C17_Ends(r) == \A q \in routeReqs' : q.id # r.id

\* an invocation that ends while awaiting a geocode call has issued no
\* POST /route, shows the propagated error in an alert and sets no route
C17_GeocodeFailureStep ==
    \A r \in routeReqs :
        (mode = "legacy" /\ r.stage \in {"geoStart", "geoEnd"} /\ C17_Ends(r)) =>
            /\ \A i \in DOMAIN r.calls : r.calls[i].url = "/geocode"
            /\ alertMsg' \in {AlertText("legacy", ErrorMsg(e)) :
                                e \in Errors \cup {TypeErrorToString}}
            /\ "route error" \in consoleLog'
            /\ routeData' = routeData
            /\ responses' = responses

\* C17: a legacy invocation has issued exactly geocode(start), then
\* geocode(end) once the first resolved, then POST /route once the second
\* resolved; one that ends at a geocode call propagates the error to the catch
\* block (it is alerted), has issued no POST /route and sets no route.
C17_LegacyCallOrder ==
    /\ [](mode = "legacy" =>
            \A r \in routeReqs :
                r.calls = C17_CallsUpTo(r.stage, r.start, r.end, r.payload))
    /\ [][C17_GeocodeFailureStep]_vars

\* a first invocation ended after its second geocode call, which brought no
\* node id; a second one has issued its three calls in order
C17_Witness ==
    /\ mode = "legacy"
    /\ lastSettled.outcome = "error"
    /\ lastSettled.id = 1
    /\ lastSettled.err = TypeErrorToString
    /\ responses = {}
    /\ \E r \in routeReqs :
            /\ r.stage = "post"
            /\ Len(r.calls) = 3
            /\ r.calls[3] = PostRoute(r.payload)

====
